---- MODULE Spec2Model ----
(***************************************************************************)
(* A model of CGAN.train (src/model/cGAN.py): the curriculum cursor, the   *)
(* per-batch discriminator/generator half-steps with their loss gates, the *)
(* checkpoint and visualization cadences, and the monitoring sink.         *)
(*                                                                         *)
(* Tensors are abstracted: a network's parameter set is the number of      *)
(* optimizer steps applied to it, a gradient buffer is the set of backward *)
(* passes accumulated in it, a loss is a small even integer (so that the   *)
(* average of two losses is computed exactly).                             *)
(***************************************************************************)
EXTENDS Integers, Sequences, FiniteSets, Bags, TLC

\* ---------------------------------------------------------------- bounds
MaxEpochs == 2          \* n_epochs ranges over 0..MaxEpochs
MaxBatches == 1         \* batches the loader yields per epoch, at most
MaxSteps == 2           \* batches of more than one example per run, at most
MaxBatchSize == 2       \* len(X) ranges over 1..MaxBatchSize
MaxInterval == 2        \* the three cadences range over 1..MaxInterval
MaxLoss == 1            \* a generator loss ranges over 0..2*MaxLoss
VocabSize == 3          \* number of keys of character_to_index_mapping

\* ------------------------------------------------- global_vars (imported)
Alphabet == <<" ", "a", "b", "c", "d", "e">>

\* list(character_to_index_mapping.keys()): the vocabulary in index order
Keys == SubSeq(Alphabet, 1, VocabSize)

KeySet == {Keys[k] : k \in 1..Len(Keys)}

NUM_CHARS == Len(Keys)

\* character_to_index_mapping: symbol -> 0-based index
character_to_index_mapping == [ch \in KeySet |-> (CHOOSE k \in 1..Len(Keys) : Keys[k] = ch) - 1]

D_loss_threshold == 1

G_loss_threshold == 1

num_characters_to_generate == 1

\* values of D_loss_real and D_loss_fake: even, so that their mean is exact
LossValues == {2 * l : l \in 0..MaxLoss}

\* values of G_loss
GLossValues == 0..(2 * MaxLoss)

VARIABLES
    pc,                     \* position in train()
    current_datetime,       \* self._current_datetime
    add_character_every,    \* global_vars cadences
    save_every,
    produce_every,
    n_epochs,               \* argument of train()
    next_letter_to_add,     \* argument of train()
    current_char_index,     \* the curriculum cursor
    dataset_added,          \* self._dataset: add_character_to_training calls, in order
    epoch,
    step,
    batch_count,            \* batches taken from the loader this epoch
    X_len,                  \* len(X) of the batch last taken in this epoch
    D_loss, G_loss,         \* losses of the batch being processed
    D_params, G_params,     \* number of optimizer steps applied
    D_grad, G_grad,         \* accumulated backward passes: <<loss, step>>
    G_mode, D_mode,         \* "train" or "eval"
    writer,                 \* the monitoring sink: bag of entries received
    files,                  \* ./data/models: path -> saved content
    save_count,             \* number of torch.save calls made
    random_characters_to_generate,
    character_conditioning, \* condition of the random sample being rendered
    i                       \* random samples rendered in this visualization

vars == <<pc, current_datetime, add_character_every, save_every, produce_every,
          n_epochs, next_letter_to_add, current_char_index, dataset_added,
          epoch, step, batch_count, X_len, D_loss, G_loss, D_params, G_params,
          D_grad, G_grad, G_mode, D_mode, writer, files, save_count,
          random_characters_to_generate, character_conditioning, i>>

config == <<current_datetime, add_character_every, save_every, produce_every,
            n_epochs, next_letter_to_add>>

curriculum == <<current_char_index, dataset_added>>

networks == <<D_params, G_params, D_grad, G_grad>>

losses == <<D_loss, G_loss>>

modes == <<G_mode, D_mode>>

checkpoints == <<files, save_count>>

sampling == <<random_characters_to_generate, character_conditioning, i>>

\* ------------------------------------------------------------- helpers
Range(s) == {s[k] : k \in 1..Len(s)}

\* writer.add_scalar / add_image / add_figure
Entry(tag, item, at) == [tag |-> tag, item |-> item, step |-> at]

Scalar(tag, at) == Entry(tag, "", at)

\* ./data/models before the first save
NoFiles == [p \in {} |-> 0]

\* "./data/models/G_{}.pt".format(str(self._current_datetime))
Path(role) == <<role, current_datetime>>

\* "%d" % k
Digit(k) == <<"0", "1", "2", "3", "4", "5", "6", "7", "8", "9">>[k + 1]

\* CGAN.__init__
Init ==
    /\ pc = "start"
    /\ current_datetime = "now"
    /\ add_character_every \in 1..MaxInterval
    /\ save_every \in 1..MaxInterval
    /\ produce_every \in 1..MaxInterval
    /\ n_epochs = 0
    /\ next_letter_to_add = " "
    /\ current_char_index = 0
    /\ dataset_added = <<>>
    /\ epoch = 0
    /\ step = 0
    /\ batch_count = 0
    /\ X_len = 0
    /\ D_loss = 0
    /\ G_loss = 0
    /\ D_params = 0
    /\ G_params = 0
    /\ D_grad = {}
    /\ G_grad = {}
    /\ G_mode = "train"
    /\ D_mode = "train"
    /\ writer = EmptyBag
    /\ files = NoFiles
    /\ save_count = 0
    /\ random_characters_to_generate = <<>>
    /\ character_conditioning = <<>>
    /\ i = 0

\* train(), lines 53-83: the cursor starts at the index of next_letter_to_add
TrainStart ==
    /\ pc = "start"
    /\ \E n \in 0..MaxEpochs, letter \in KeySet :
        /\ n_epochs' = n
        /\ next_letter_to_add' = letter
        /\ current_char_index' = character_to_index_mapping[letter]
    /\ step' = 0
    /\ pc' = "for_epoch"
    /\ UNCHANGED <<current_datetime, add_character_every, save_every, produce_every,
                   dataset_added, epoch, batch_count, X_len, losses, networks, modes,
                   writer, checkpoints, sampling>>

\* a loop over range(1, n_epochs + 2)
ForEpoch_OneMore ==
    /\ pc = "for_epoch"
    /\ IF epoch < n_epochs + 1
         THEN /\ epoch' = epoch + 1
              /\ pc' = "add_character"
         ELSE /\ epoch' = epoch
              /\ pc' = "done"
    /\ UNCHANGED <<config, curriculum, step, batch_count, X_len, losses, networks,
                   modes, writer, checkpoints, sampling>>

\* line 84: for epoch in range(1, n_epochs + 1)
ForEpoch ==
    /\ pc = "for_epoch"
    /\ IF epoch < n_epochs
         THEN /\ epoch' = epoch + 1
              /\ pc' = "add_character"
         ELSE /\ epoch' = epoch
              /\ pc' = "done"
    /\ UNCHANGED <<config, curriculum, step, batch_count, X_len, losses, networks,
                   modes, writer, checkpoints, sampling>>

\* a boundary check that tests the epoch about to follow
UnlockDue_NextEpoch ==
    (epoch + 1) % add_character_every = 0 /\ current_char_index < NUM_CHARS

\* line 86
UnlockDue == epoch % add_character_every = 0 /\ current_char_index < NUM_CHARS

\* a notification that names the letter train() was called with
NextSymbol_Stale == next_letter_to_add

\* line 87: list(character_to_index_mapping.keys())[current_char_index]
NextSymbol == Keys[current_char_index + 1]

\* lines 86-91: the epoch-boundary check, then both networks to training mode
AddCharacter ==
    /\ pc = "add_character"
    /\ IF UnlockDue
         THEN /\ dataset_added' = Append(dataset_added, NextSymbol)
              /\ current_char_index' = current_char_index + 1
         ELSE UNCHANGED curriculum
    /\ G_mode' = "train"
    /\ D_mode' = "train"
    /\ batch_count' = 0
    /\ pc' = "batches"
    /\ UNCHANGED <<config, epoch, step, X_len, losses, networks, writer, checkpoints,
                   sampling>>

\* a loop that lacks the check of line 98
NextBatch_NoSkip ==
    /\ pc = "batches"
    /\ batch_count < MaxBatches
    /\ step < MaxSteps
    /\ \E n \in 1..MaxBatchSize : X_len' = n
    /\ step' = step + 1
    /\ pc' = "d_half"
    /\ batch_count' = batch_count + 1
    /\ D_loss' = 0
    /\ G_loss' = 0
    /\ UNCHANGED <<config, curriculum, epoch, networks, modes, writer, checkpoints,
                   sampling>>

\* lines 95-101: take the next batch; a batch of one example is skipped.
\* The losses of the previous batch are dead from here on (they are rebound
\* before they are read again), so they are cleared.
NextBatch ==
    /\ pc = "batches"
    /\ batch_count < MaxBatches
    /\ \E n \in 1..MaxBatchSize :
        /\ n > 1 => step < MaxSteps
        /\ X_len' = n
        /\ IF n = 1
             THEN /\ step' = step
                  /\ pc' = "batches"
             ELSE /\ step' = step + 1
                  /\ pc' = "d_half"
    /\ batch_count' = batch_count + 1
    /\ D_loss' = 0
    /\ G_loss' = 0
    /\ UNCHANGED <<config, curriculum, epoch, networks, modes, writer, checkpoints,
                   sampling>>

\* lines 167-168: the loader is exhausted; the locals of the loop body are dead
EndBatches ==
    /\ pc = "batches"
    /\ pc' = "save"
    /\ X_len' = 0
    /\ D_loss' = 0
    /\ G_loss' = 0
    /\ UNCHANGED <<config, curriculum, epoch, step, batch_count, networks, modes,
                   writer, checkpoints, sampling>>

\* line 131
DGate(loss) == loss > D_loss_threshold

\* a half-step that does not reset the gradients
DZeroGrad_Missing(grad) == grad

\* line 117: self._D_optim.zero_grad()
DZeroGrad(grad) == {}

\* a half-step that does not report the response to fake images
DMetrics_NoFake(at) ==
    SetToBag({Scalar("Loss/Discriminator", at),
              Scalar("Discriminator response/to real images (average)", at)})

\* lines 135-139: the three discriminator metrics of a batch
DMetrics(at) ==
    SetToBag({Scalar("Loss/Discriminator", at),
              Scalar("Discriminator response/to real images (average)", at),
              Scalar("Discriminator response/to fake images (average)", at)})

\* lines 103-139: discriminator half-step and its three metrics
DHalfStep ==
    /\ pc = "d_half"
    /\ \E D_loss_real \in LossValues, D_loss_fake \in LossValues :
        LET loss == (D_loss_real + D_loss_fake) \div 2
        IN  /\ D_loss' = loss
            /\ IF DGate(loss)
                 THEN /\ D_grad' = DZeroGrad(D_grad) \cup {<<"D_loss", step>>}
                      /\ D_params' = D_params + 1
                 ELSE /\ D_grad' = DZeroGrad(D_grad)
                      /\ D_params' = D_params
    /\ writer' = writer (+) DMetrics(step)
    /\ pc' = "g_half"
    /\ UNCHANGED <<config, curriculum, epoch, step, batch_count, X_len, G_loss,
                   G_params, G_grad, modes, checkpoints, sampling>>

\* a gate that also lets a loss equal to the threshold through
GGate_NonStrict(loss) == loss >= G_loss_threshold

\* line 150
GGate(loss) == loss > G_loss_threshold

\* line 142: self._G_optim.zero_grad()
GZeroGrad(grad) == {}

\* line 154: the generator metric of a batch
GMetrics(at) == SetToBag({Scalar("Loss/Generator", at)})

\* lines 141-165: generator half-step and its metric.  G_loss.backward() runs
\* through the discriminator, so it accumulates into both networks' gradients.
\* The body of the loop ends here: the batch and its discriminator loss are
\* dead from here on, so they are cleared.
GHalfStep ==
    /\ pc = "g_half"
    /\ \E loss \in GLossValues :
        /\ G_loss' = loss
        /\ IF GGate(loss)
             THEN /\ G_grad' = GZeroGrad(G_grad) \cup {<<"G_loss", step>>}
                  /\ D_grad' = D_grad \cup {<<"G_loss", step>>}
                  /\ G_params' = G_params + 1
             ELSE /\ G_grad' = GZeroGrad(G_grad)
                  /\ D_grad' = D_grad
                  /\ G_params' = G_params
    /\ writer' = writer (+) GMetrics(step)
    /\ pc' = "batches"
    /\ X_len' = 0
    /\ D_loss' = 0
    /\ UNCHANGED <<config, curriculum, epoch, step, batch_count, D_params, modes,
                   checkpoints, sampling>>

\* line 170
SaveDue == epoch % save_every = 0

\* a save that writes the generator to both paths
SaveBoth_GeneratorTwice(fs) ==
    [p \in DOMAIN fs \cup {Path("G"), Path("D")} |->
        IF p \in {Path("G"), Path("D")} THEN G_params ELSE fs[p]]

\* lines 172-173: torch.save of both networks, each to its own path
SaveBoth(fs) ==
    [p \in DOMAIN fs \cup {Path("G"), Path("D")} |->
        IF p = Path("G") THEN G_params
        ELSE IF p = Path("D") THEN D_params
        ELSE fs[p]]

\* lines 170-174: the checkpoint cadence
Save ==
    /\ pc = "save"
    /\ IF SaveDue
         THEN /\ files' = SaveBoth(files)
              /\ save_count' = save_count + 2
         ELSE UNCHANGED checkpoints
    /\ pc' = "produce"
    /\ UNCHANGED <<config, curriculum, epoch, step, batch_count, X_len, losses,
                   networks, modes, writer, sampling>>

\* line 177
ProduceDue == epoch % produce_every = 0

\* a visualization that leaves the generator in the mode it is in
Produce_NoEval ==
    /\ pc = "produce"
    /\ pc' = IF ProduceDue THEN "fixed_points" ELSE "for_epoch"
    /\ UNCHANGED <<config, curriculum, epoch, step, batch_count, X_len, losses,
                   networks, modes, writer, checkpoints, sampling>>

\* lines 177-180: the visualization cadence; the generator goes to evaluation mode
Produce ==
    /\ pc = "produce"
    /\ IF ProduceDue
         THEN /\ G_mode' = "eval"
              /\ pc' = "fixed_points"
         ELSE /\ G_mode' = G_mode
              /\ pc' = "for_epoch"
    /\ UNCHANGED <<config, curriculum, epoch, step, batch_count, X_len, losses,
                   networks, D_mode, writer, checkpoints, sampling>>

\* lines 184-189: one image per watched letter, for style P then for style G
FixedImages(suffix) ==
    SetToBag({Entry("Fixed latent points/" \o suffix, Keys[k], epoch) : k \in 1..Len(Keys)})

\* lines 192-193: the symbols a random sample is drawn from
RandomCharacters ==
    SelectSeq(Keys, LAMBDA ch : character_to_index_mapping[ch] < current_char_index - 1)
        \o <<" ">>

\* lines 183-193: the fixed-latent grid, then the list for the random samples
FixedPoints ==
    /\ pc = "fixed_points"
    /\ writer' = writer (+) FixedImages("_P") (+) FixedImages("_G")
    /\ random_characters_to_generate' = RandomCharacters
    /\ i' = 0
    /\ pc' = "random_chars"
    /\ UNCHANGED <<config, curriculum, epoch, step, batch_count, X_len, losses,
                   networks, modes, checkpoints, character_conditioning>>

\* lines 195-202: one random sample.  Its style (line 197) only changes the
\* pixels of the rendered image, which are not modelled.
RandomChar ==
    /\ pc = "random_chars"
    /\ i < num_characters_to_generate
    /\ \E ch \in Range(random_characters_to_generate) :
        character_conditioning' = <<" ", ch, " ">>
    /\ writer' = writer (+) SetToBag({Entry("Random characters", Digit(i), epoch)})
    /\ i' = i + 1
    /\ UNCHANGED <<pc, config, curriculum, epoch, step, batch_count, X_len, losses,
                   networks, modes, checkpoints, random_characters_to_generate>>

\* line 204: the visualization is finished and the loop goes to the next
\* epoch; the last sample's condition is dead from here on
ProduceDone ==
    /\ pc = "random_chars"
    /\ i = num_characters_to_generate
    /\ pc' = "for_epoch"
    /\ character_conditioning' = <<>>
    /\ UNCHANGED <<config, curriculum, epoch, step, batch_count, X_len, losses,
                   networks, modes, writer, checkpoints,
                   random_characters_to_generate, i>>

Next ==
    \/ TrainStart
    \/ ForEpoch
    \/ AddCharacter
    \/ NextBatch
    \/ EndBatches
    \/ DHalfStep
    \/ GHalfStep
    \/ Save
    \/ Produce
    \/ FixedPoints
    \/ RandomChar
    \/ ProduceDone

Spec == Init /\ [][Next]_vars

\* train() is a sequential loop: a step that can be taken is taken
FairSpec == Spec /\ WF_vars(Next)

\* ------------------------------------------------------------ properties

\* the cursor train() starts from (line 54)
InitialCursor == character_to_index_mapping[next_letter_to_add]

\* the symbols at vocabulary positions below the cursor
Unlocked == {Keys[k] : k \in 1..current_char_index}

ScalarTags ==
    {"Loss/Discriminator",
     "Discriminator response/to real images (average)",
     "Discriminator response/to fake images (average)",
     "Loss/Generator"}

DTags == ScalarTags \ {"Loss/Generator"}

\* a step of the loader that yields a batch of n examples
Takes(n) == pc = "batches" /\ batch_count' = batch_count + 1 /\ X_len' = n

\* C1: at the boundary check of an epoch the cursor stays or advances by one,
\* and it advances iff the epoch is a multiple of the unlock interval and the
\* cursor is below the vocabulary size; no other step of the run moves it.
C1_CursorStep ==
    [][/\ pc = "add_character" =>
            /\ current_char_index' \in {current_char_index, current_char_index + 1}
            /\ current_char_index' = current_char_index + 1
                 <=> (epoch % add_character_every = 0 /\ current_char_index < NUM_CHARS)
       /\ pc \notin {"start", "add_character"} => current_char_index' = current_char_index
      ]_vars

\* C1 witness: with interval 2 the cursor stayed at epoch 1 and advanced at epoch 2
C1_Witness ==
    /\ pc = "batches"
    /\ epoch = 2
    /\ add_character_every = 2
    /\ current_char_index = InitialCursor + 1

C2_Inv ==
    pc # "start" =>
        /\ InitialCursor <= current_char_index
        /\ current_char_index <= NUM_CHARS
        /\ dataset_added = SubSeq(Keys, InitialCursor + 1, current_char_index)

C2_Step ==
    pc # "start" =>
        /\ current_char_index' >= current_char_index
        /\ current_char_index = NUM_CHARS => UNCHANGED curriculum

\* C2: during a run the cursor lies between its initial value and the
\* vocabulary size and never decreases, the symbols notified to the dataset are
\* the vocabulary symbols from the initial cursor up to the cursor, once each
\* and in order, and once the cursor is the vocabulary size no step changes
\* the cursor or the dataset.
C2_CursorAndNotifications == [](C2_Inv) /\ [][C2_Step]_vars

\* C2 witness: the vocabulary was exhausted by an unlock and a later boundary
\* check has passed
C2_Witness ==
    /\ pc = "batches"
    /\ current_char_index = NUM_CHARS
    /\ Len(dataset_added) >= 1
    /\ add_character_every = 1
    /\ epoch > Len(dataset_added)

\* C3: taking a batch of exactly one example changes neither the step counter,
\* nor the parameters and gradients of either network, nor the monitoring
\* sink, and the loop goes on to the next batch.
C3_DegenerateBatch ==
    [][Takes(1) =>
            /\ pc' = "batches"
            /\ UNCHANGED <<step, D_params, G_params, D_grad, G_grad, writer>>
      ]_vars

\* C3 witness: a batch of one example was taken at a step counter above zero
C3_Witness == pc = "batches" /\ X_len = 1 /\ step >= 1

\* C4: in the half-step of a side that side's parameters change iff its loss
\* is strictly above its own threshold, the other side's parameters are left
\* alone, and no other step changes any parameters.
C4_StabilityGate ==
    [][/\ pc = "d_half" =>
            /\ D_params' # D_params <=> D_loss' > D_loss_threshold
            /\ G_params' = G_params
       /\ pc = "g_half" =>
            /\ G_params' # G_params <=> G_loss' > G_loss_threshold
            /\ D_params' = D_params
       /\ pc \notin {"d_half", "g_half"} => UNCHANGED <<D_params, G_params>>
      ]_vars

\* C4 witness: a batch whose discriminator loss passed its gate and whose
\* generator loss, equal to its threshold, did not
C4_Witness ==
    /\ pc = "batches"
    /\ step = 1
    /\ G_loss = G_loss_threshold
    /\ D_params = 1
    /\ G_params = 0

\* number of times the sink received the scalar tag at step at
Logged(tag, at) == CopiesIn(Scalar(tag, at), writer)

C5_Inv ==
    /\ \A e \in BagToSet(writer) : e.tag \in ScalarTags => e.step \in 1..step
    /\ \A at \in 1..step :
        /\ \A tag \in DTags :
            Logged(tag, at) = IF at = step /\ pc = "d_half" THEN 0 ELSE 1
        /\ Logged("Loss/Generator", at)
             = IF at = step /\ pc \in {"d_half", "g_half"} THEN 0 ELSE 1

C5_Step == step' = IF \E n \in 2..MaxBatchSize : Takes(n) THEN step + 1 ELSE step

\* C5: the step counter goes up by one exactly when a batch of more than one
\* example is taken; once such a batch is processed the sink holds exactly one
\* entry of each of the four scalar tags at that batch's step value, whatever
\* the gates decided, and no scalar entry at any other step value.
C5_MetricsPerBatch == [](C5_Inv) /\ [][C5_Step]_vars

\* C5 witness: two batches processed with every update gated
C5_Witness ==
    /\ pc = "batches"
    /\ step = 2
    /\ D_params = 0
    /\ G_params = 0

\* the epoch whose phases ended last
LastEpoch == IF pc = "add_character" THEN epoch - 1 ELSE epoch

\* C6 as stated: once a visualization has finished the generator is in
\* training mode, the visualization of the final epoch included.
C6_TrainModeAfterVisualization ==
    (pc \in {"for_epoch", "done"} /\ epoch >= 1 /\ epoch % produce_every = 0)
        => G_mode = "train"

\* C6 amended: the generator is in evaluation mode while a visualization
\* renders and stays so when it finishes; it is back in training mode from
\* the next epoch's boundary check on, before any batch of that epoch, and it
\* is left in evaluation mode after the visualization of the final epoch.
C6_TrainModeFromNextEpoch ==
    /\ pc \in {"fixed_points", "random_chars"} => G_mode = "eval"
    /\ pc \in {"batches", "d_half", "g_half", "save", "produce"}
         => G_mode = "train" /\ D_mode = "train"
    /\ (pc \in {"for_epoch", "add_character", "done"} /\ LastEpoch >= 1)
         => (G_mode = "eval" <=> LastEpoch % produce_every = 0)

\* C6 witness: a run of two epochs, each with a visualization, has ended
C6_Witness ==
    /\ pc = "done"
    /\ epoch = 2
    /\ produce_every = 1
    /\ G_mode = "eval"

\* C7 as stated: the symbols a random sample is drawn from are the unlocked
\* symbols together with the blank.
C7_RandomSamplePool ==
    pc = "random_chars" => Range(random_characters_to_generate) = Unlocked \cup {" "}

C8_Inv ==
    /\ DOMAIN files \in {{}, {Path("G"), Path("D")}}
    /\ SaveBoth(SaveBoth(files)) = SaveBoth(files)
    /\ (pc \in {"produce", "fixed_points", "random_chars", "for_epoch", "done"}
            /\ epoch >= 1 /\ epoch % save_every = 0)
         => files = [p \in {Path("G"), Path("D")} |->
                        IF p = Path("G") THEN G_params ELSE D_params]

C8_Step ==
    /\ current_datetime' = current_datetime
    /\ IF pc = "save" /\ epoch % save_every = 0
         THEN /\ save_count' = save_count + 2
              /\ files' = [p \in {Path("G"), Path("D")} |->
                              IF p = Path("G") THEN G_params ELSE D_params]
         ELSE UNCHANGED <<files, save_count>>

\* C8: every file is one of the two paths of the run, whose identifier never
\* changes; the save step of an epoch writes both networks' current parameters
\* iff the epoch is a multiple of the checkpoint interval, and no other step
\* writes; from a save to the end of its epoch the files hold the current
\* parameters, and saving the same parameters again changes nothing.
C8_Checkpoints == [](C8_Inv) /\ [][C8_Step]_vars

\* C8 witness: in epoch 2 the parameters of both networks have moved on from
\* the files written at the end of epoch 1
C8_Witness ==
    /\ pc = "batches"
    /\ epoch = 2
    /\ DOMAIN files = {Path("G"), Path("D")}
    /\ files[Path("G")] = 1 /\ G_params = 2
    /\ files[Path("D")] = 0 /\ D_params = 1

\* the order of the phases of a run
PhaseEdges ==
    {<<"start", "for_epoch">>, <<"for_epoch", "add_character">>,
     <<"for_epoch", "done">>, <<"add_character", "batches">>,
     <<"batches", "batches">>, <<"batches", "d_half">>, <<"d_half", "g_half">>,
     <<"g_half", "batches">>, <<"batches", "save">>, <<"save", "produce">>,
     <<"produce", "fixed_points">>, <<"produce", "for_epoch">>,
     <<"fixed_points", "random_chars">>, <<"random_chars", "random_chars">>,
     <<"random_chars", "for_epoch">>}

C9_Step ==
    /\ <<pc, pc'>> \in PhaseEdges
    /\ epoch' # epoch => pc = "for_epoch" /\ pc' = "add_character" /\ epoch' = epoch + 1
    /\ dataset_added' # dataset_added
         => pc = "add_character" /\ epoch % add_character_every = 0
    /\ save_count' # save_count => pc = "save" /\ epoch % save_every = 0
    /\ pc' = "fixed_points" <=> (pc = "produce" /\ epoch % produce_every = 0)

C9_Inv ==
    /\ pc = "done" => epoch = n_epochs /\ ~ENABLED Next
    /\ pc # "done" => ENABLED Next

\* C9: the phases of a run follow one another in the order unlock, batches,
\* checkpoint, visualization, the optional ones only on their cadence and an
\* epoch beginning only when the one before has ended; the run reaches its
\* end, it does so after exactly n_epochs epochs, and it stops nowhere else.
C9_RunStateMachine == [](C9_Inv) /\ [][C9_Step]_vars /\ <>(pc = "done")

\* C9 witness: a run of two epochs has ended after a checkpoint and a
\* visualization
C9_Witness ==
    /\ pc = "done"
    /\ epoch = 2
    /\ save_count >= 2
    /\ \E e \in BagToSet(writer) : e.tag = "Random characters"

\* C10: whenever an optimizer step changes the discriminator, its gradients
\* are those of the discriminator loss of the batch in hand and nothing else,
\* and whenever one changes the generator, its gradients are those of the
\* generator loss of the batch in hand and nothing else.
C10_GradientIsolation ==
    [][/\ D_params' # D_params => D_grad' = {<<"D_loss", step>>}
       /\ G_params' # G_params => G_grad' = {<<"G_loss", step>>}
      ]_vars

\* C10 witness: the discriminator has been stepped in the batch after one whose
\* generator loss was propagated back through it
C10_Witness ==
    /\ pc = "g_half"
    /\ step = 2
    /\ G_params >= 1
    /\ D_loss > D_loss_threshold
====
